---------------------------- MODULE Spec2Model ----------------------------
(***************************************************************************)
(* Model of src/bot.py: the per-user context store (class UserContext),    *)
(* the completion wrapper get_gpt_response and the two Telegram handlers   *)
(* send_welcome and handle_text.                                           *)
(*                                                                         *)
(* Texts.  A Python str is modelled as a sequence of symbols; a symbol is  *)
(* either one whitespace character (" " or "\n") or a maximal run of       *)
(* non-whitespace characters (a word).  Concatenation of strings is \o,    *)
(* the empty string is << >>.  The Cyrillic literals of the source are     *)
(* written in Latin transliteration, the original is given in a comment.   *)
(***************************************************************************)
EXTENDS Integers, Sequences, FiniteSets, TLC

-----------------------------------------------------------------------------
(* Bounds of the model *)

\* Start of a handler or a direct append is allowed only while the store
\* holds fewer than MaxStored entries (summed over all users).
MaxStored == 4

\* With the handlers run concurrently, a message is dispatched only while
\* the store holds fewer than MaxConcStored entries and its sender has at
\* most MaxConcStored texts in the inbox.
MaxConcStored == 1

-----------------------------------------------------------------------------
(* Literals of the source *)

Whitespace == {" ", "\n"}

\* "Очистить контекст" (bot.py:113, 139)
CLEAR_TRIGGER == <<"Ochistit", " ", "kontekst">>

\* 'Объяснить термины' (bot.py:118, 140)
EXPLAIN_TRIGGER == <<"Obyasnit", " ", "terminy">>

\* "Контекст сброшен." (bot.py:115)
CLEAR_ACK == <<"Kontekst", " ", "sbroshen.">>

\* "Подождите..." (bot.py:134)
WAIT_NOTICE == <<"Podozhdite...">>

\* "На стороне сервиса произошла ошибка. Воспользуйтесь сервисом позже."
ERROR_RESPONSE ==
    <<"Na", " ", "storone", " ", "servisa", " ", "proizoshla", " ", "oshibka.",
      " ", "Vospolzuytes", " ", "servisom", " ", "pozzhe.">>

\* The greeting of send_welcome (bot.py:93-94), abbreviated to its first words.
WELCOME_TEXT == <<"Privet!", " ", "Ya", " ", "bot">>

\* The two instruction texts of handle_text, each an opaque string.
EXPLAIN_PROMPT == <<"Dobav spisok slozhnyh terminov">>

REWRITE_PROMPT == <<"Ty - ekspert">>

\* The value of message.from_user.username when Telegram supplies none.
None == "<None>"

Usernames == {"alice", None}

\* 'объяснить термины': the explain-terms trigger in lower case, a text
\* that differs from the trigger literal only by the case of a letter.
EXPLAIN_LOWER == <<"obyasnit", " ", "terminy">>

\* The inbound texts the handlers and the direct calls are driven with.
Messages == {<<"m1">>, <<"m2">>, EXPLAIN_LOWER, EXPLAIN_TRIGGER, CLEAR_TRIGGER}

NoText == << >>

-----------------------------------------------------------------------------
VARIABLES
    storage,        \* UserContext.storage: username -> list of str
    last_call,      \* the last UserContext method call and its outcome
    pc,             \* per handler thread: position in the handler
    message,        \* per thread: the Message being handled
    context,        \* per thread: local `context` of handle_text
    system_prompt,  \* per thread: local `system_prompt` of handle_text
    api_result,     \* per thread: what client.chat.completions.create did
    response,       \* per thread: local `response` of handle_text
    sent,           \* per thread: outbound messages of this invocation
    n_append,       \* per thread: appends performed by this invocation
    n_calls,        \* per thread: completion calls issued by this invocation
    inbox,          \* per user: texts received by handle_text since the
                    \* user's most recent clear trigger, in arrival order
    invoked         \* users handle_text was invoked for since the start

store_vars == <<storage, last_call>>

thread_vars == <<pc, message, context, system_prompt, api_result, response,
                 sent, n_append, n_calls>>

log_vars == <<inbox, invoked>>

vars == <<storage, last_call, pc, message, context, system_prompt,
          api_result, response, sent, n_append, n_calls, inbox, invoked>>

-----------------------------------------------------------------------------
(* Python built-ins used by the source *)

\* Mutant of SliceFrom: a negative start is taken one entry too far back.
SliceFromOffByOne(list, start) ==
    LET n     == Len(list)
        first == IF start < 0
                 THEN (IF n + start - 1 < 0 THEN 0 ELSE n + start - 1)
                 ELSE (IF start > n THEN n ELSE start)
    IN  SubSeq(list, first + 1, n)

\* list[start:] for a possibly negative start (Python slice semantics):
\* a negative start counts from the end and is clamped at the beginning.
SliceFrom(list, start) ==
    LET n     == Len(list)
        first == IF start < 0
                 THEN (IF n + start < 0 THEN 0 ELSE n + start)
                 ELSE (IF start > n THEN n ELSE start)
    IN  SubSeq(list, first + 1, n)

\* sep.join(list): the elements of list with sep between consecutive ones.
RECURSIVE Join(_, _)
Join(sep, list) ==
    IF list = << >> THEN << >>
    ELSE IF Len(list) = 1 THEN list[1]
    ELSE list[1] \o sep \o Join(sep, Tail(list))

\* str.lstrip(): drops the leading whitespace characters.
RECURSIVE LStrip(_)
LStrip(text) ==
    IF text # << >> /\ text[1] \in Whitespace THEN LStrip(Tail(text)) ELSE text

\* str.rstrip(): drops the trailing whitespace characters.
RECURSIVE RStrip(_)
RStrip(text) ==
    IF text # << >> /\ text[Len(text)] \in Whitespace
    THEN RStrip(SubSeq(text, 1, Len(text) - 1))
    ELSE text

\* str.strip()
Strip(text) == RStrip(LStrip(text))

-----------------------------------------------------------------------------
(* class UserContext *)

LAST_MESSAGES_TO_RETURN == -3

\* storage after `self.storage[username] = value`
StoragePut(username, value) ==
    [u \in DOMAIN storage \cup {username} |->
        IF u = username THEN value ELSE storage[u]]

\* The list stored for username, << >> when there is no entry (used only to
\* record what a call found, never by the methods themselves).
Found(username) ==
    IF username \in DOMAIN storage THEN storage[username] ELSE << >>

Call(op, username, raised, result) ==
    [op |-> op, username |-> username, raised |-> raised, result |-> result,
     had |-> username \in DOMAIN storage, pre |-> Found(username)]

\* " ".join(history[LAST_MESSAGES_TO_RETURN:]) (bot.py:29)
Window(history) == Join(<<" ">>, SliceFrom(history, LAST_MESSAGES_TO_RETURN))

\* UserContext._create_context: self.storage[username] = []
_create_context(username) ==
    /\ storage' = StoragePut(username, << >>)
    /\ last_call' = Call("create", username, FALSE, NoText)

\* UserContext._get_context: " ".join(self.storage[username][-3:]);
\* self.storage[username] raises KeyError when there is no entry.
_get_context(username) ==
    /\ storage' = storage
    /\ last_call' =
         IF username \in DOMAIN storage
         THEN Call("get", username, FALSE, Window(storage[username]))
         ELSE Call("get", username, TRUE, NoText)

\* Mutant of _add_context: the list is capped at write time, only its last
\* three entries are kept.
_add_context_capped(username, msg) ==
    IF username \in DOMAIN storage
    THEN /\ storage' = StoragePut(username,
                           SliceFrom(Append(storage[username], msg.text),
                                     LAST_MESSAGES_TO_RETURN))
         /\ last_call' = Call("add", username, FALSE, NoText)
    ELSE /\ storage' = storage
         /\ last_call' = Call("add", username, TRUE, NoText)

\* UserContext._add_context: self.storage[username].append(message.text)
_add_context(username, msg) ==
    IF username \in DOMAIN storage
    THEN /\ storage' = StoragePut(username, Append(storage[username], msg.text))
         /\ last_call' = Call("add", username, FALSE, NoText)
    ELSE /\ storage' = storage
         /\ last_call' = Call("add", username, TRUE, NoText)

\* Mutant of _del_context: the entry itself is deleted
\* (del self.storage[username]).
_del_context_entry(username) ==
    IF username \in DOMAIN storage
    THEN /\ storage' = [u \in DOMAIN storage \ {username} |-> storage[u]]
         /\ last_call' = Call("del", username, FALSE, NoText)
    ELSE /\ storage' = storage
         /\ last_call' = Call("del", username, TRUE, NoText)

\* Mutant of _del_context: only the last entry is removed (list.pop()).
_del_context_pop(username) ==
    IF username \in DOMAIN storage /\ storage[username] # << >>
    THEN /\ storage' = StoragePut(username,
                          SubSeq(storage[username], 1, Len(storage[username]) - 1))
         /\ last_call' = Call("del", username, FALSE, NoText)
    ELSE /\ storage' = storage
         /\ last_call' = Call("del", username, TRUE, NoText)

\* Mutant of _del_context: every user's list is emptied
\* (for h in self.storage.values(): h.clear()).
_del_context_all(username) ==
    IF username \in DOMAIN storage
    THEN /\ storage' = [u \in DOMAIN storage |-> << >>]
         /\ last_call' = Call("del", username, FALSE, NoText)
    ELSE /\ storage' = storage
         /\ last_call' = Call("del", username, TRUE, NoText)

\* UserContext._del_context: self.storage[username].clear()
_del_context(username) ==
    IF username \in DOMAIN storage
    THEN /\ storage' = StoragePut(username, << >>)
         /\ last_call' = Call("del", username, FALSE, NoText)
    ELSE /\ storage' = storage
         /\ last_call' = Call("del", username, TRUE, NoText)

\* Number of entries held by the store, all users together.
RECURSIVE StoredIn(_)
StoredIn(users) ==
    IF users = {} THEN 0
    ELSE LET u == CHOOSE x \in users : TRUE
         IN  Len(storage[u]) + StoredIn(users \ {u})

Stored == StoredIn(DOMAIN storage)

\* A Message of the transport: its text and its sender's username.
Msg(username, text) == [text |-> text, username |-> username]

NoMessage == Msg(None, NoText)

NoCall == [op |-> "none", username |-> None, raised |-> FALSE,
           result |-> NoText, had |-> FALSE, pre |-> << >>]

NoResult == [kind |-> "none", content |-> NoText]

Threads == {1, 2}

Init ==
    /\ storage = << >>
    /\ last_call = NoCall
    /\ pc = [t \in Threads |-> "idle"]
    /\ message = [t \in Threads |-> NoMessage]
    /\ context = [t \in Threads |-> NoText]
    /\ system_prompt = [t \in Threads |-> NoText]
    /\ api_result = [t \in Threads |-> NoResult]
    /\ response = [t \in Threads |-> NoText]
    /\ sent = [t \in Threads |-> << >>]
    /\ n_append = [t \in Threads |-> 0]
    /\ n_calls = [t \in Threads |-> 0]
    /\ inbox = [u \in Usernames |-> << >>]
    /\ invoked = {}

-----------------------------------------------------------------------------
(* The store's methods called directly, one call per step *)

CallCreate(u) == _create_context(u) /\ UNCHANGED <<thread_vars, log_vars>>

CallGet(u) == _get_context(u) /\ UNCHANGED <<thread_vars, log_vars>>

CallAdd(u, m) ==
    /\ Stored < MaxStored
    /\ _add_context(u, Msg(u, m))
    /\ UNCHANGED <<thread_vars, log_vars>>

CallDel(u) == _del_context(u) /\ UNCHANGED <<thread_vars, log_vars>>

NextStore ==
    \/ \E u \in Usernames : CallCreate(u)
    \/ \E u \in Usernames : CallGet(u)
    \/ \E u \in Usernames, m \in Messages : CallAdd(u, m)
    \/ \E u \in Usernames : CallDel(u)

SpecStore == Init /\ [][NextStore]_vars

-----------------------------------------------------------------------------
(* get_gpt_response *)

\* Texts the completion model may return as message content: plain, padded
\* with whitespace, with inner whitespace, whitespace only, and the text of
\* ERROR_RESPONSE itself (bare and padded).
ModelOutputs ==
    { <<"r1">>, <<" ", "r1", "\n">>, <<"r1", " ", "r2">>, <<" ">>,
      ERROR_RESPONSE, <<"\n">> \o ERROR_RESPONSE \o <<" ">> }

\* What client.chat.completions.create(...) does: it raises, or it returns a
\* response with no choices, with a message whose content is None, or with a
\* message whose content is a string.
ApiResults ==
    { [kind |-> k, content |-> NoText] : k \in {"raise", "no_choices", "none_content"} }
    \cup { [kind |-> "text", content |-> c] : c \in ModelOutputs }

\* The body of the try block (bot.py:69-81): the create call raises, or
\* response.choices[0] raises IndexError, or None.strip() raises
\* AttributeError, or the stripped content is returned.
TryBody(api) ==
    IF api.kind = "text"
    THEN [raised |-> FALSE, value |-> Strip(api.content)]
    ELSE [raised |-> TRUE, value |-> NoText]

\* Mutant of get_gpt_response: only the exception raised by the create call
\* is caught, one raised while the response is unpacked escapes.
get_gpt_response_narrow(api) ==
    IF api.kind = "raise"
    THEN [raised |-> FALSE, value |-> ERROR_RESPONSE]
    ELSE TryBody(api)

\* get_gpt_response: `except Exception` turns every exception of the try
\* block into the return value ERROR_RESPONSE.
get_gpt_response(api) ==
    LET r == TryBody(api)
    IN  IF r.raised THEN [raised |-> FALSE, value |-> ERROR_RESPONSE] ELSE r

-----------------------------------------------------------------------------
(* The handlers.  Each runs on a worker thread t; pc[t] is its position. *)

\* bot.reply_to(message, text): no reply_markup.
reply_to(text) ==
    [via |-> "reply_to", text |-> text, has_markup |-> FALSE, keyboard |-> << >>]

\* bot.send_message(chat_id, text, parse_mode='HTML', reply_markup=markup)
send_message(text, keyboard) ==
    [via |-> "send_message", text |-> text, has_markup |-> TRUE,
     keyboard |-> keyboard]

\* Mutant of Markup: the two buttons are added whatever the response.
MarkupAlways(resp) == <<CLEAR_TRIGGER, EXPLAIN_TRIGGER>>

\* markup = ReplyKeyboardMarkup(...); the two buttons are added only when
\* response != ERROR_RESPONSE (bot.py:137-140).
Markup(resp) ==
    IF resp # ERROR_RESPONSE THEN <<CLEAR_TRIGGER, EXPLAIN_TRIGGER>> ELSE << >>

\* Mutant of SelectPrompt: the text is compared ignoring the case of its
\* first letter.
SelectPromptAnyCase(user_message) ==
    IF user_message \in {EXPLAIN_TRIGGER, EXPLAIN_LOWER}
    THEN EXPLAIN_PROMPT
    ELSE REWRITE_PROMPT

\* The system prompt chosen by bot.py:118-132.
SelectPrompt(user_message) ==
    IF user_message = EXPLAIN_TRIGGER THEN EXPLAIN_PROMPT ELSE REWRITE_PROMPT

\* A handler invocation begins on an idle thread t with its Message.
Begin(t, msg) ==
    /\ pc[t] = "idle"
    /\ message' = [message EXCEPT ![t] = msg]
    /\ UNCHANGED <<context, system_prompt, api_result, response, n_append, n_calls>>

\* The handler returns (or its exception ends it): its locals are gone and
\* the thread is idle again.
Return(t) ==
    /\ pc[t] \in {"done", "crashed"}
    /\ pc' = [pc EXCEPT ![t] = "idle"]
    /\ message' = [message EXCEPT ![t] = NoMessage]
    /\ context' = [context EXCEPT ![t] = NoText]
    /\ system_prompt' = [system_prompt EXCEPT ![t] = NoText]
    /\ api_result' = [api_result EXCEPT ![t] = NoResult]
    /\ response' = [response EXCEPT ![t] = NoText]
    /\ sent' = [sent EXCEPT ![t] = << >>]
    /\ n_append' = [n_append EXCEPT ![t] = 0]
    /\ n_calls' = [n_calls EXCEPT ![t] = 0]
    /\ UNCHANGED <<store_vars, log_vars>>

\* With one handler at a time every message is handled by the same thread.
MainThread == CHOOSE t \in Threads : \A o \in Threads : t <= o

\* Mutant of send_welcome: the greeting also starts a fresh context for the
\* sender.
send_welcome_reset(t, u) ==
    /\ t = MainThread
    /\ Begin(t, Msg(u, <<"/start">>))
    /\ sent' = [sent EXCEPT ![t] = <<reply_to(WELCOME_TEXT)>>]
    /\ pc' = [pc EXCEPT ![t] = "done"]
    /\ _create_context(u)
    /\ UNCHANGED log_vars

\* send_welcome (bot.py:87-94), the handler of /start: one reply.
send_welcome(t, u) ==
    /\ t = MainThread
    /\ Begin(t, Msg(u, <<"/start">>))
    /\ sent' = [sent EXCEPT ![t] = <<reply_to(WELCOME_TEXT)>>]
    /\ pc' = [pc EXCEPT ![t] = "done"]
    /\ UNCHANGED <<store_vars, log_vars>>

\* handle_text is dispatched for an inbound text (bot.py:97-105).
Dispatch(t, u, m) ==
    /\ Stored < MaxStored
    /\ Begin(t, Msg(u, m))
    /\ sent' = [sent EXCEPT ![t] = << >>]
    /\ pc' = [pc EXCEPT ![t] = "check"]
    /\ inbox' = [inbox EXCEPT ![u] = IF m = CLEAR_TRIGGER THEN << >> ELSE Append(@, m)]
    /\ invoked' = invoked \cup {u}
    /\ UNCHANGED store_vars

\* One handler at a time: the next message is dispatched when the handler
\* of the previous one has returned.
Receive(t, u, m) ==
    /\ t = MainThread
    /\ Dispatch(t, u, m)

\* Mutant of CheckContext: `if username and username not in ...`, an absent
\* username never gets its entry created.
CheckContextTruthy(t) ==
    /\ pc[t] = "check"
    /\ pc' = [pc EXCEPT ![t] =
                IF /\ message[t].username # None
                   /\ message[t].username \notin DOMAIN storage
                THEN "create" ELSE "add"]
    /\ UNCHANGED <<log_vars, store_vars, message, context, system_prompt,
                   api_result, response, sent, n_append, n_calls>>

\* bot.py:107  if username not in user_context.storage
CheckContext(t) ==
    /\ pc[t] = "check"
    /\ pc' = [pc EXCEPT ![t] =
                IF message[t].username \notin DOMAIN storage THEN "create" ELSE "add"]
    /\ UNCHANGED <<log_vars, store_vars, message, context, system_prompt, api_result,
                   response, sent, n_append, n_calls>>

\* bot.py:108  user_context._create_context(username)
CreateContext(t) ==
    /\ pc[t] = "create"
    /\ _create_context(message[t].username)
    /\ pc' = [pc EXCEPT ![t] = "add"]
    /\ UNCHANGED <<log_vars, message, context, system_prompt, api_result, response, sent,
                   n_append, n_calls>>

\* bot.py:110  user_context._add_context(username, message)
AddContext(t) ==
    /\ pc[t] = "add"
    /\ _add_context(message[t].username, message[t])
    /\ pc' = [pc EXCEPT ![t] = IF last_call'.raised THEN "crashed" ELSE "get"]
    /\ n_append' = [n_append EXCEPT ![t] = IF last_call'.raised THEN @ ELSE @ + 1]
    /\ UNCHANGED <<log_vars, message, context, system_prompt, api_result, response, sent,
                   n_calls>>

\* Mutant of GetContext: the window is the one of the history before the
\* append of line 110, as if line 111 ran first.
GetContextStale(t) ==
    /\ pc[t] = "get"
    /\ _get_context(message[t].username)
    /\ pc' = [pc EXCEPT ![t] = IF last_call'.raised THEN "crashed" ELSE "branch"]
    /\ context' = [context EXCEPT ![t] =
                     LET h == Found(message[t].username)
                     IN  Window(SubSeq(h, 1, Len(h) - 1))]
    /\ UNCHANGED <<log_vars, message, system_prompt, api_result, response, sent, n_append,
                   n_calls>>

\* bot.py:111  context = user_context._get_context(username)
GetContext(t) ==
    /\ pc[t] = "get"
    /\ _get_context(message[t].username)
    /\ pc' = [pc EXCEPT ![t] = IF last_call'.raised THEN "crashed" ELSE "branch"]
    /\ context' = [context EXCEPT ![t] = last_call'.result]
    /\ UNCHANGED <<log_vars, message, system_prompt, api_result, response, sent, n_append,
                   n_calls>>

\* bot.py:113-114  the clear trigger: user_context._del_context(username)
ClearContext(t) ==
    /\ pc[t] = "branch"
    /\ message[t].text = CLEAR_TRIGGER
    /\ _del_context(message[t].username)
    /\ pc' = [pc EXCEPT ![t] = IF last_call'.raised THEN "crashed" ELSE "ack"]
    /\ UNCHANGED <<log_vars, message, context, system_prompt, api_result, response, sent,
                   n_append, n_calls>>

\* bot.py:115  bot.reply_to(message, "Контекст сброшен.")
SendAck(t) ==
    /\ pc[t] = "ack"
    /\ sent' = [sent EXCEPT ![t] = Append(@, reply_to(CLEAR_ACK))]
    /\ pc' = [pc EXCEPT ![t] = "done"]
    /\ UNCHANGED <<log_vars, store_vars, message, context, system_prompt, api_result,
                   response, n_append, n_calls>>

\* Mutant of ChoosePrompt: `if` in place of `else`, the clear trigger falls
\* through to the completion branch.
ChoosePromptAlways(t) ==
    /\ pc[t] = "branch"
    /\ system_prompt' = [system_prompt EXCEPT ![t] = SelectPrompt(message[t].text)]
    /\ pc' = [pc EXCEPT ![t] = "notice"]
    /\ UNCHANGED <<log_vars, store_vars, message, context, api_result, response, sent,
                   n_append, n_calls>>

\* bot.py:117-132  any other text: the system prompt is chosen
ChoosePrompt(t) ==
    /\ pc[t] = "branch"
    /\ message[t].text # CLEAR_TRIGGER
    /\ system_prompt' = [system_prompt EXCEPT ![t] = SelectPrompt(message[t].text)]
    /\ pc' = [pc EXCEPT ![t] = "notice"]
    /\ UNCHANGED <<log_vars, store_vars, message, context, api_result, response, sent,
                   n_append, n_calls>>

\* Mutant of SendNotice: line 134 is skipped, no notice is sent.
SendNoticeSkipped(t) ==
    /\ pc[t] = "notice"
    /\ sent' = sent
    /\ pc' = [pc EXCEPT ![t] = "call"]
    /\ UNCHANGED <<log_vars, store_vars, message, context, system_prompt, api_result,
                   response, n_append, n_calls>>

\* bot.py:134  bot.reply_to(message, "Подождите...")
SendNotice(t) ==
    /\ pc[t] = "notice"
    /\ sent' = [sent EXCEPT ![t] = Append(@, reply_to(WAIT_NOTICE))]
    /\ pc' = [pc EXCEPT ![t] = "call"]
    /\ UNCHANGED <<log_vars, store_vars, message, context, system_prompt, api_result,
                   response, n_append, n_calls>>

\* bot.py:135, 69  the completion request (context, system_prompt) is issued
IssueCompletion(t) ==
    /\ pc[t] = "call"
    /\ n_calls' = [n_calls EXCEPT ![t] = @ + 1]
    /\ pc' = [pc EXCEPT ![t] = "await"]
    /\ UNCHANGED <<log_vars, store_vars, message, context, system_prompt, api_result,
                   response, sent, n_append>>

\* Mutant of CompletionReturns: a failed request is issued again.
CompletionReturnsRetry(t, api) ==
    /\ pc[t] = "await"
    /\ api_result' = [api_result EXCEPT ![t] = api]
    /\ LET r == get_gpt_response(api)
       IN  /\ response' = [response EXCEPT ![t] = r.value]
           /\ pc' = [pc EXCEPT ![t] = IF api.kind = "text" THEN "send" ELSE "call"]
    /\ UNCHANGED <<log_vars, store_vars, message, context, system_prompt, sent, n_append,
                   n_calls>>

\* Mutant of CompletionReturns: a failed request is abandoned, the handler
\* ends without sending anything more.
CompletionReturnsCancel(t, api) ==
    /\ pc[t] = "await"
    /\ api_result' = [api_result EXCEPT ![t] = api]
    /\ LET r == get_gpt_response(api)
       IN  /\ response' = [response EXCEPT ![t] = r.value]
           /\ pc' = [pc EXCEPT ![t] = IF api.kind = "text" THEN "send" ELSE "done"]
    /\ UNCHANGED <<log_vars, store_vars, message, context, system_prompt, sent, n_append,
                   n_calls>>

\* bot.py:135, 69-84  the request ends with api; get_gpt_response returns
CompletionReturns(t, api) ==
    /\ pc[t] = "await"
    /\ api_result' = [api_result EXCEPT ![t] = api]
    /\ LET r == get_gpt_response(api)
       IN  /\ response' = [response EXCEPT ![t] = r.value]
           /\ pc' = [pc EXCEPT ![t] = IF r.raised THEN "crashed" ELSE "send"]
    /\ UNCHANGED <<log_vars, store_vars, message, context, system_prompt, sent, n_append,
                   n_calls>>

\* bot.py:137-142  the markup is built and the response is sent
SendResponse(t) ==
    /\ pc[t] = "send"
    /\ sent' = [sent EXCEPT ![t] =
                  Append(@, send_message(response[t], Markup(response[t])))]
    /\ pc' = [pc EXCEPT ![t] = "done"]
    /\ UNCHANGED <<log_vars, store_vars, message, context, system_prompt, api_result,
                   response, n_append, n_calls>>

\* The steps of handle_text after its dispatch; results are the outcomes
\* of the completion request that are considered.
handle_text(t, results) ==
    \/ CheckContext(t)
    \/ CreateContext(t)
    \/ AddContext(t)
    \/ GetContext(t)
    \/ ClearContext(t)
    \/ SendAck(t)
    \/ ChoosePrompt(t)
    \/ SendNotice(t)
    \/ IssueCompletion(t)
    \/ \E api \in results : CompletionReturns(t, api)
    \/ SendResponse(t)

\* The bot with its handlers run one at a time.
Next ==
    \/ \E t \in Threads, u \in Usernames : send_welcome(t, u)
    \/ \E t \in Threads, u \in Usernames, m \in Messages : Receive(t, u, m)
    \/ \E t \in Threads : handle_text(t, ApiResults)
    \/ \E t \in Threads : Return(t)

Spec == Init /\ [][Next]_vars

\* The steps a handler thread takes by itself: every statement of handle_text
\* but the return of the completion request, which is up to the collaborator
\* (the request has no timeout).
ThreadStep(t) ==
    \/ CheckContext(t)
    \/ CreateContext(t)
    \/ AddContext(t)
    \/ GetContext(t)
    \/ ClearContext(t)
    \/ SendAck(t)
    \/ ChoosePrompt(t)
    \/ SendNotice(t)
    \/ IssueCompletion(t)
    \/ SendResponse(t)

\* The bot with its handlers run one at a time, a thread that can take a step
\* of its handler eventually taking it.
SpecLive == Init /\ [][Next]_vars /\ \A t \in Threads : WF_vars(ThreadStep(t))

\* The inbound texts and the completion outcomes the concurrent handlers are
\* driven with.
ConcMessages == {<<"m1">>, <<"m2">>, CLEAR_TRIGGER}

ConcResults ==
    { [kind |-> "raise", content |-> NoText],
      [kind |-> "text", content |-> <<"r1">>] }

\* A message is dispatched to any idle worker thread, whatever the other
\* threads are doing.
DispatchConc(t, u, m) ==
    /\ Stored < MaxConcStored
    /\ Len(inbox[u]) <= MaxConcStored
    /\ Dispatch(t, u, m)

\* The bot with its handlers run concurrently on the worker threads.
NextConc ==
    \/ \E t \in Threads, u \in Usernames, m \in ConcMessages : DispatchConc(t, u, m)
    \/ \E t \in Threads : handle_text(t, ConcResults)
    \/ \E t \in Threads : Return(t)

SpecConc == Init /\ [][NextConc]_vars

\* Two messages arrive at the freshly started bot and are handled
\* concurrently, each on its own worker thread; no further message arrives.
NextRace ==
    \/ \E t \in Threads, u \in Usernames, m \in Messages : Dispatch(t, u, m)
    \/ \E t \in Threads : handle_text(t, ApiResults)

SpecRace == Init /\ [][NextRace]_vars

-----------------------------------------------------------------------------
(* Properties *)

\* The last entry of a non-empty sequence.
Last(seq) == seq[Len(seq)]

\* The last k entries of h (all of h when it has fewer), written out with
\* single spaces between them.
LastJoined(h) ==
    LET n == Len(h)
    IN  CASE n = 0 -> << >>
          [] n = 1 -> h[1]
          [] n = 2 -> h[1] \o <<" ">> \o h[2]
          [] OTHER -> h[n - 2] \o <<" ">> \o h[n - 1] \o <<" ">> \o h[n]

Failures == {"raise", "no_choices", "none_content"}

\* Thread t has finished a handle_text invocation.
HandledText(t) == pc[t] = "done" /\ message[t].text # <<"/start">>

\* C1: for a user with history h, _get_context returns the last min(3, len(h))
\* entries of h in their order joined by single spaces, the empty string when
\* h is empty, and leaves h as it was.
C1_WindowIsLastThree ==
    (last_call.op = "get" /\ last_call.had) =>
        /\ ~last_call.raised
        /\ last_call.result = LastJoined(last_call.pre)
        /\ storage[last_call.username] = last_call.pre

\* C1 witness: the window of a history of four entries, not all equal, was read.
C1_Witness ==
    /\ last_call.op = "get"
    /\ Len(last_call.pre) = 4
    /\ last_call.pre[1] # last_call.pre[2]
    /\ last_call.pre[2] # last_call.pre[4]

\* C2: a message equal to the clear trigger never leads to a completion call,
\* and its handling ends with exactly one outbound message: the fixed
\* acknowledgement, with no keyboard.
C2_ClearNoCallAck ==
    \A t \in Threads :
        message[t].text = CLEAR_TRIGGER =>
            /\ n_calls[t] = 0
            /\ api_result[t].kind = "none"
            /\ pc[t] \notin {"notice", "call", "await", "send"}
            /\ pc[t] = "done" =>
                 /\ Len(sent[t]) = 1
                 /\ sent[t][1].text = CLEAR_ACK
                 /\ sent[t][1].keyboard = << >>
                 /\ ~sent[t][1].has_markup

\* C2 witness: a clear trigger sent by a user with earlier history is handled.
C2_Witness ==
    \E t \in Threads :
        /\ pc[t] = "done"
        /\ message[t].text = CLEAR_TRIGGER
        /\ last_call.op = "del"
        /\ Len(last_call.pre) > 1

\* C3: after a clear the user's entry is still in the store, the history is
\* empty (so the clear trigger appended just before is gone) and the window
\* is the empty string, whatever the length of the history before.
C3_ClearEmpties ==
    (last_call.op = "del" /\ ~last_call.raised) =>
        /\ last_call.username \in DOMAIN storage
        /\ storage[last_call.username] = << >>
        /\ Window(storage[last_call.username]) = NoText
        /\ \A t \in Threads :
             (pc[t] \in {"ack", "done"} /\ message[t].text = CLEAR_TRIGGER) =>
                 Last(last_call.pre) = CLEAR_TRIGGER

\* C3 witness: handle_text cleared a history of four entries (the trigger
\* included).
C3_Witness ==
    \E t \in Threads :
        /\ pc[t] = "done"
        /\ message[t].text = CLEAR_TRIGGER
        /\ last_call.op = "del"
        /\ last_call.username = message[t].username
        /\ Len(last_call.pre) = 4

C5_ClearUnknownIsNoOp ==
    (last_call.op = "del" /\ ~last_call.had) =>
        /\ ~last_call.raised
        /\ last_call.username \notin DOMAIN storage

\* C6: _get_context for a user with no entry returns the empty string, and
\* for a user whose history is the single entry "m1" it returns "m1".
C6_FreshWindowIsEmpty ==
    /\ (last_call.op = "get" /\ ~last_call.had) =>
           (~last_call.raised /\ last_call.result = NoText)
    /\ (last_call.op = "get" /\ last_call.had /\ last_call.pre = << <<"m1">> >>) =>
           (~last_call.raised /\ last_call.result = <<"m1">>)

\* C7: _create_context for a user who already has an entry leaves that
\* user's history as it was.
C7_EnsureIsIdempotent ==
    (last_call.op = "create" /\ last_call.had) =>
        storage[last_call.username] = last_call.pre

\* C8: a handle_text invocation appends the inbound text to the sender's
\* history exactly once, and issues no completion call for the clear trigger
\* and exactly one for any other text, whether the call succeeds or fails.
C8_OneAppendOneCall ==
    \A t \in Threads :
        /\ n_append[t] <= 1
        /\ n_calls[t] <= 1
        /\ pc[t] = "get" =>
             /\ last_call.op = "add"
             /\ ~last_call.raised
             /\ storage[message[t].username] =
                    Append(last_call.pre, message[t].text)
        /\ HandledText(t) =>
             /\ n_append[t] = 1
             /\ n_calls[t] = (IF message[t].text = CLEAR_TRIGGER THEN 0 ELSE 1)

\* C8 witness: the explain-terms trigger was handled and its completion call
\* failed.
C8_Witness ==
    \E t \in Threads :
        /\ HandledText(t)
        /\ message[t].text = EXPLAIN_TRIGGER
        /\ api_result[t].kind \in Failures

\* C9: whenever the completion call returns a text, the reply is that text
\* stripped of surrounding whitespace and carries both buttons.
C9_SuccessHasButtons ==
    \A t \in Threads :
        (HandledText(t) /\ api_result[t].kind = "text") =>
            /\ Last(sent[t]).text = Strip(api_result[t].content)
            /\ Last(sent[t]).keyboard = <<CLEAR_TRIGGER, EXPLAIN_TRIGGER>>

\* C10 as stated: the final reply to any handled text (acknowledgement, model
\* reply or error reply) carries the two buttons if and only if its text is
\* not ERROR_RESPONSE.
C10_ButtonsIffNotSentinel ==
    \A t \in Threads :
        HandledText(t) =>
            (Last(sent[t]).keyboard = <<CLEAR_TRIGGER, EXPLAIN_TRIGGER>>
                <=> Last(sent[t]).text # ERROR_RESPONSE)

\* C10 amended: the final reply to a text other than the clear trigger carries
\* the two buttons if and only if its text is not ERROR_RESPONSE, and has no
\* button otherwise; the acknowledgement of a clear carries no button.
C10_ButtonsIffNotSentinelUnlessAck ==
    \A t \in Threads :
        HandledText(t) =>
            IF message[t].text = CLEAR_TRIGGER
            THEN Last(sent[t]).keyboard = << >>
            ELSE /\ Last(sent[t]).keyboard \in
                       {<< >>, <<CLEAR_TRIGGER, EXPLAIN_TRIGGER>>}
                 /\ Last(sent[t]).keyboard = <<CLEAR_TRIGGER, EXPLAIN_TRIGGER>>
                       <=> Last(sent[t]).text # ERROR_RESPONSE

\* C10 witness: a model reply was sent with the two buttons.
C10_Witness ==
    \E t \in Threads :
        /\ HandledText(t)
        /\ api_result[t].kind = "text"
        /\ Last(sent[t]).keyboard = <<CLEAR_TRIGGER, EXPLAIN_TRIGGER>>

\* Thread t is in handle_text and has chosen its system prompt.
Prompted(t) ==
    /\ pc[t] \in {"notice", "call", "await", "send", "done"}
    /\ message[t].text \notin {<<"/start">>, CLEAR_TRIGGER}

\* text contains part as a run of consecutive symbols.
Contains(text, part) ==
    \E i \in 1..Len(text) :
        /\ i + Len(part) - 1 <= Len(text)
        /\ SubSeq(text, i, i + Len(part) - 1) = part

\* C11: the instruction of a handled text is the explain-terms instruction
\* exactly when the text equals the explain-terms trigger letter for letter,
\* and the rewrite instruction for every other text that is not the clear
\* trigger, whatever the sender's history and window contain.
C11_PromptByCurrentMessage ==
    \A t \in Threads :
        Prompted(t) =>
            /\ message[t].text = EXPLAIN_TRIGGER => system_prompt[t] = EXPLAIN_PROMPT
            /\ message[t].text # EXPLAIN_TRIGGER => system_prompt[t] = REWRITE_PROMPT
            /\ system_prompt[t] \in {EXPLAIN_PROMPT, REWRITE_PROMPT}
            /\ EXPLAIN_PROMPT # REWRITE_PROMPT

\* C11 witness: the lower-case variant of the trigger is handled with the
\* rewrite instruction while the window holds the explain-terms trigger.
C11_Witness ==
    \E t \in Threads :
        /\ Prompted(t)
        /\ message[t].text = EXPLAIN_LOWER
        /\ system_prompt[t] = REWRITE_PROMPT
        /\ Contains(context[t], EXPLAIN_TRIGGER)

\* No handler is between its dispatch and its end.
Quiet == \A t \in Threads : pc[t] \in {"idle", "done"}

\* C12: a user has an entry in the store if and only if handle_text was
\* invoked for that user since the start (the invocation being past its
\* check-and-create step), whether or not a clear followed; and an entry,
\* once in the store, stays in it.
C12_EntryIffInvoked ==
    /\ [](\A u \in Usernames :
            /\ u \in DOMAIN storage => u \in invoked
            /\ u \in invoked =>
                 \/ u \in DOMAIN storage
                 \/ \E t \in Threads : /\ message[t].username = u
                                       /\ pc[t] \in {"check", "create"})
    /\ [][DOMAIN storage \subseteq DOMAIN storage']_vars

\* C12 witness: a user's clear was handled and nothing came from that user
\* since; the entry is there, empty.
C12_Witness ==
    /\ Quiet
    /\ \E u \in DOMAIN storage :
         /\ u \in invoked
         /\ inbox[u] = << >>
         /\ storage[u] = << >>
         /\ \E v \in DOMAIN storage : storage[v] # << >>

\* C13: a handle_text invocation whose sender's username is None never
\* ends in an exception: the entry is kept under the key None, the text is
\* appended to it, the window is read from it, and a clear empties it.
C13_NoneUsernameHandled ==
    \A t \in Threads :
        (pc[t] # "idle" /\ message[t].username = None) =>
            /\ pc[t] # "crashed"
            /\ pc[t] \in {"add", "get", "branch", "ack", "notice", "call",
                          "await", "send", "done"}
                   /\ message[t].text # <<"/start">>
                 => None \in DOMAIN storage
            /\ pc[t] \in {"get", "branch", "notice", "call", "await", "send"}
                 => Last(storage[None]) = message[t].text
            /\ pc[t] \in {"branch", "notice", "call", "await", "send"}
                 => context[t] = LastJoined(storage[None])
            /\ (pc[t] \in {"ack", "done"} /\ message[t].text = CLEAR_TRIGGER)
                 => storage[None] = << >>

\* C13 witness: for the username None a text was handled to its reply with
\* a window of three entries.
C13_Witness ==
    \E t \in Threads :
        /\ pc[t] = "done"
        /\ message[t].username = None
        /\ message[t].text = <<"m2">>
        /\ Len(storage[None]) >= 3
        /\ Len(sent[t]) = 2

\* C14: the step that handles /start changes nothing of the store (no entry
\* created, no list changed, no method of the store called), issues no
\* completion call, and sends the greeting as its only message.
C14_WelcomeLeavesStore ==
    [][\A t \in Threads :
          (pc[t] = "idle" /\ message'[t].text = <<"/start">>) =>
              /\ storage' = storage
              /\ last_call' = last_call
              /\ inbox' = inbox
              /\ invoked' = invoked
              /\ n_append'[t] = 0
              /\ n_calls'[t] = 0
              /\ api_result'[t].kind = "none"
              /\ pc'[t] = "done"
              /\ Len(sent'[t]) = 1
              /\ sent'[t][1].text = WELCOME_TEXT
              /\ sent'[t][1].keyboard = << >>]_vars

\* C14 witness: /start was handled for a user who has a history of two
\* entries.
C14_Witness ==
    \E t \in Threads :
        /\ pc[t] = "done"
        /\ message[t].text = <<"/start">>
        /\ message[t].username \in DOMAIN storage
        /\ Len(storage[message[t].username]) = 2
        /\ sent[t][1].text = WELCOME_TEXT

\* Number of entries of list equal to x.
Count(list, x) == Cardinality({i \in 1..Len(list) : list[i] = x})

\* C15: when two concurrent handle_text invocations have both finished and
\* neither handled the clear trigger, the history of each sender holds the
\* text of every invocation of that sender (as many times as it was sent).
C15_NoAppendLost ==
    (\A t \in Threads : pc[t] = "done" /\ message[t].text # CLEAR_TRIGGER) =>
        \A t \in Threads :
            /\ message[t].username \in DOMAIN storage
            /\ Count(storage[message[t].username], message[t].text) >=
                   Cardinality({o \in Threads : message[o] = message[t]})

\* Thread t has issued the completion request of its handle_text invocation.
Requested(t) == Prompted(t) /\ n_calls[t] >= 1

\* text ends with part.
EndsWith(text, part) ==
    /\ Len(part) <= Len(text)
    /\ SubSeq(text, Len(text) - Len(part) + 1, Len(text)) = part

\* C16: with handlers run one at a time, the user content of an issued
\* completion request is the window of the history after the append: the
\* handled text is the last entry of the history and the end of the content,
\* the content is the last three entries (all when fewer) joined by spaces,
\* and it contains the explain-terms trigger whenever that trigger is the
\* handled text or one of the two texts received before it.
C16_ContentIsWindowAfterAppend ==
    \A t \in Threads :
        Requested(t) =>
            LET u == message[t].username
                h == storage[u]
                r == inbox[u]
            IN  /\ h # << >>
                /\ Last(h) = message[t].text
                /\ context[t] = LastJoined(h)
                /\ EndsWith(context[t], message[t].text)
                /\ \A k \in 0..2 :
                       (Len(r) > k /\ r[Len(r) - k] = EXPLAIN_TRIGGER) =>
                           Contains(context[t], EXPLAIN_TRIGGER)

\* C16 witness: a request is issued for a plain text whose sender has four
\* stored texts, the explain-terms trigger being two texts before the
\* handled one and the oldest text being outside the content.
C16_Witness ==
    \E t \in Threads :
        /\ Requested(t)
        /\ message[t].text = <<"m1">>
        /\ Len(storage[message[t].username]) = MaxStored
        /\ storage[message[t].username][MaxStored - 2] = EXPLAIN_TRIGGER
        /\ storage[message[t].username][1] = <<"m2">>
        /\ ~Contains(context[t], <<"m2">>)
        /\ Contains(context[t], EXPLAIN_TRIGGER)

\* Texts the bot sends: acknowledgement, notice, greeting, the error text
\* and the replies of the model, stripped or not.
OutboundTexts ==
    {CLEAR_ACK, WAIT_NOTICE, WELCOME_TEXT, ERROR_RESPONSE}
        \cup ModelOutputs \cup {Strip(c) : c \in ModelOutputs}

\* A handle_text invocation for user u is before its append, or handles the
\* clear trigger and is before its clear.
Pending(u) ==
    \E t \in Threads :
        /\ message[t].username = u
        /\ \/ pc[t] \in {"check", "create", "add"}
           \/ pc[t] \in {"get", "branch"} /\ message[t].text = CLEAR_TRIGGER

\* C17: with handlers run one at a time, the history of every user is the
\* sequence of the texts received from that user since the user's most recent
\* clear trigger, in arrival order and in full (as soon as the invocation in
\* progress has appended, or cleared); every stored entry is an inbound text
\* and none is a text the bot sent.
C17_HistoryIsInboundSinceClear ==
    /\ \A u \in Usernames : ~Pending(u) => Found(u) = inbox[u]
    /\ \A u \in DOMAIN storage : \A i \in 1..Len(storage[u]) :
           /\ storage[u][i] \in Messages
           /\ storage[u][i] \notin OutboundTexts

\* C17 witness: a user's history has grown beyond the window size, every
\* received text being stored, the last request having failed and been
\* answered with the error text, while another user's history is cleared.
C17_Witness ==
    \E t \in Threads, u \in Usernames :
        /\ pc[t] = "done"
        /\ message[t].username = u
        /\ response[t] = ERROR_RESPONSE
        /\ api_result[t].kind \in Failures
        /\ Len(storage[u]) = MaxStored
        /\ Len(storage[u]) > -LAST_MESSAGES_TO_RETURN
        /\ storage[u] = inbox[u]
        /\ \E v \in Usernames : v # u /\ v \in DOMAIN storage /\ storage[v] = << >>

\* The reply of step pc "send": the response, sent with send_message.
FinalReply(t) == send_message(response[t], Markup(response[t]))

\* C18: a request is issued at most once per message; while it is awaited the
\* handler sends nothing and can only go on waiting or take the result or
\* failure of the collaborator; once the collaborator has returned or failed
\* the handler eventually ends having sent exactly one message more, the
\* final reply, and sends nothing after it.
C18_ReplyOnceAfterReturn ==
    /\ \A t \in Threads :
           (pc[t] = "send") ~>
               (pc[t] = "done" /\ Len(sent[t]) = 2 /\ Last(sent[t]) = FinalReply(t))
    /\ [](\A t \in Threads : n_calls[t] <= 1)
    /\ [][\A t \in Threads :
            /\ pc[t] = "await" =>
                 /\ pc'[t] \in {"await", "send"}
                 /\ sent'[t] = sent[t]
                 /\ n_calls'[t] = n_calls[t]
                 /\ pc'[t] = "send" => api_result'[t] \in ApiResults
            /\ pc[t] = "send" =>
                 /\ pc'[t] \in {"send", "done"}
                 /\ n_calls'[t] = n_calls[t]
                 /\ sent'[t] = IF pc'[t] = "done"
                               THEN Append(sent[t], FinalReply(t)) ELSE sent[t]
            /\ (pc[t] = "done" /\ pc'[t] = "done") => sent'[t] = sent[t]]_vars

\* C18 witness: the collaborator returned a message without content, and the
\* handler ended after one request with the error text as its final reply.
C18_Witness ==
    \E t \in Threads :
        /\ pc[t] = "done"
        /\ api_result[t].kind = "none_content"
        /\ n_calls[t] = 1
        /\ Len(sent[t]) = 2
        /\ Last(sent[t]) = send_message(ERROR_RESPONSE, << >>)

\* C19: a step that changes the history of a user v, or whether v has an
\* entry, is a step of a handle_text invocation for a message of v; the
\* entries of all other users are the same before and after every step of an
\* invocation, whatever its text.
C19_OnlySenderEntryChanges ==
    [][\A v \in Usernames :
          (Found(v)' # Found(v) \/ (v \in DOMAIN storage') # (v \in DOMAIN storage)) =>
              \E t \in Threads :
                  /\ pc[t] \in {"create", "add", "branch"}
                  /\ pc'[t] # pc[t]
                  /\ message[t].username = v
                  /\ \A o \in Threads \ {t} : pc[o] = "idle"]_vars

\* C19 witness: a clear trigger of one user has just emptied that user's
\* history while the other user's history, the explain-terms trigger in it,
\* is still stored.
C19_Witness ==
    \E t \in Threads, v \in Usernames :
        /\ pc[t] = "ack"
        /\ message[t].text = CLEAR_TRIGGER
        /\ message[t].username # v
        /\ storage[message[t].username] = << >>
        /\ last_call.op = "del" /\ last_call.pre # << >>
        /\ v \in DOMAIN storage
        /\ Len(storage[v]) >= 2
        /\ \E i \in 1..Len(storage[v]) : storage[v][i] = EXPLAIN_TRIGGER

\* C20: for a text other than the clear trigger the notice is the only
\* message sent when the request is issued and until it has returned, and the
\* final reply is sent after the return, so the handled text has produced
\* exactly the notice and then the final reply; for the clear trigger, exactly
\* the acknowledgement and no notice.
C20_NoticeCallReply ==
    \A t \in Threads :
        /\ (Requested(t) /\ pc[t] \in {"await", "send"}) =>
               sent[t] = <<reply_to(WAIT_NOTICE)>>
        /\ pc[t] = "await" => api_result[t] = NoResult
        /\ pc[t] = "call" => sent[t] = <<reply_to(WAIT_NOTICE)>> /\ n_calls[t] = 0
        /\ (HandledText(t) /\ message[t].text # CLEAR_TRIGGER) =>
               /\ n_calls[t] = 1
               /\ api_result[t] \in ApiResults
               /\ sent[t] = <<reply_to(WAIT_NOTICE), FinalReply(t)>>
        /\ (HandledText(t) /\ message[t].text = CLEAR_TRIGGER) =>
               /\ sent[t] = <<reply_to(CLEAR_ACK)>>
               /\ \A i \in 1..Len(sent[t]) : sent[t][i].text # WAIT_NOTICE
        /\ (pc[t] \notin {"idle", "done"} /\ message[t].text = CLEAR_TRIGGER) =>
               sent[t] = << >>

\* C20 witness: the explain-terms trigger was answered with the notice and
\* then a reply of the model carrying the buttons.
C20_Witness ==
    \E t \in Threads :
        /\ HandledText(t)
        /\ message[t].text = EXPLAIN_TRIGGER
        /\ api_result[t].kind = "text"
        /\ Len(sent[t]) = 2
        /\ sent[t][1].text = WAIT_NOTICE /\ sent[t][1].via = "reply_to"
        /\ sent[t][2].via = "send_message" /\ sent[t][2].keyboard # << >>

=============================================================================
